---- MODULE Spec2Model ----
(***************************************************************************)
(* A model of PushComponent (src/src/components/push.rs): the popup that   *)
(* drives one asynchronous push through AsyncPush, asks CredComponent for  *)
(* credentials when the remote needs them, and reports a failed push on    *)
(* the internal event queue.                                               *)
(*                                                                         *)
(* Option<T> is modelled as a sequence of length 0 (None) or 1 (Some(x)).  *)
(* Result<()> is "Ok" / "Err"; Result<bool> is "Ok(true)" / "Ok(false)" /  *)
(* "Err".                                                                  *)
(***************************************************************************)
EXTENDS Integers, Sequences, FiniteSets, TLC

VARIABLES visible, pending, branch, progress, input_cred, queue, git_push,
          channel, last, track

vars == <<visible, pending, branch, progress, input_cred, queue, git_push,
          channel, last, track>>

-----------------------------------------------------------------------------
(* Bounds of the model *)

\* the longest internal event queue the model lets build up before the
\* consumer has to drain it
MaxQueue == 2

\* the most AsyncNotification::Push messages waiting in the channel
MaxChannel == 2

\* the largest percentage a PushProgress carries
MaxPercent == 100

-----------------------------------------------------------------------------
(* Values *)

None == <<>>
Some(x) == <<x>>

DEFAULT_REMOTE_NAME == "origin"

\* branch names handed to push()
Branches == {"main", "dev"}

\* BasicAuthCredential values: nothing, a username with an empty password, both
Creds ==
    { [username |-> None,         password |-> None],
      [username |-> Some("user"), password |-> Some("")],
      [username |-> Some("user"), password |-> Some("pw")] }

EmptyCred == [username |-> None, password |-> None]

\* PushProgress values the engine reports
Snapshots ==
    { [state |-> "PackingDeltafiction", progress |-> 42] }

\* PushProgressState
PushProgressStates == {"PackingAddingObject", "PackingDeltafiction", "Pushing"}

\* every PushProgress the popup may have to show
AllSnapshots == [state : PushProgressStates, progress : 0..MaxPercent]

\* the labels of the progress gauge
PUSH_POPUP_PROGRESS_NONE == "strings::PUSH_POPUP_PROGRESS_NONE"
PUSH_POPUP_STATES_ADDING == "strings::PUSH_POPUP_STATES_ADDING"
PUSH_POPUP_STATES_DELTAS == "strings::PUSH_POPUP_STATES_DELTAS"
PUSH_POPUP_STATES_PUSHING == "strings::PUSH_POPUP_STATES_PUSHING"

\* commands of other components that may already be in the list handed to
\* commands()
OtherCommand == [text |-> "other", enabled |-> TRUE, available |-> TRUE]

\* error texts a finished push can leave as its last result
Errs == {"connection reset"}

\* crossterm events: three kinds of key and one event that is no key
exit_popup == "Key(exit_popup)"
enter == "Key(enter)"
Events == {exit_popup, enter, "Key(other)", "Resize"}
IsKey(ev) == ev \in {exit_popup, enter, "Key(other)"}

\* AsyncNotification tags
Notifications == {"Push", "Other"}

\* outcomes of need_username_password(DEFAULT_REMOTE_NAME)
NeedOutcomes == {"Err", "true", "false"}

\* outcomes of extract_username_password(DEFAULT_REMOTE_NAME)
ExtractOutcomes == {[ok |-> FALSE, cred |-> EmptyCred]}
                   \cup {[ok |-> TRUE, cred |-> c] : c \in Creds}

\* which of the three polls of update() fails, if any
PollOutcomes == {"ok", "is_pending", "progress", "last_result"}

-----------------------------------------------------------------------------
(* Collaborators that live outside push.rs *)

\* BasicAuthCredential::is_complete: both fields present and non-empty
is_complete(c) ==
    /\ c.username # None
    /\ c.username[1] # ""
    /\ c.password # None
    /\ c.password[1] # ""

\* AsyncPush::request: an accepted request starts the asynchronous work
request(g, req, accepted) ==
    IF accepted
    THEN [g EXCEPT !.pending = TRUE, !.progress = None]
    ELSE g

\* CredComponent::event: the possible results (consumed, new negotiator state)
\* of handing a key to the credential prompt
CredEventOutcomes(ic, ev) ==
    IF ~ic.visible
    THEN {[consumed |-> FALSE, input_cred |-> ic]}
    ELSE IF ev = exit_popup
    THEN {[consumed |-> TRUE, input_cred |-> [ic EXCEPT !.visible = FALSE]]}
    ELSE IF ev = enter
    THEN {[consumed |-> c, input_cred |-> [ic EXCEPT !.cred = k]] :
             c \in BOOLEAN, k \in Creds}
    ELSE {[consumed |-> TRUE, input_cred |-> [ic EXCEPT !.cred = k]] :
             k \in Creds}

\* CredComponent::commands: the prompt adds its own commands (confirm, cancel
\* entry) to the list
cred_commands(ic, out, force_all) ==
    [out |-> out \o << [text |-> "cred:confirm", enabled |-> TRUE,
                        available |-> TRUE],
                       [text |-> "cred:cancel", enabled |-> TRUE,
                        available |-> TRUE] >>,
     ret |-> IF ic.visible THEN "Blocking" ELSE "PassingOn"]

\* components::visibility_blocking
visibility_blocking(self) ==
    IF self.visible THEN "Blocking" ELSE "PassingOn"

-----------------------------------------------------------------------------
(* PushComponent: its methods as functions of the component `self`.  The   *)
(* fields submitted and polled log the calls made on git_push during one  *)
(* method call.                                                            *)

\* PushComponent::progress_state_name
progress_state_name(state) ==
    CASE state = "PackingAddingObject" -> PUSH_POPUP_STATES_ADDING
      [] state = "PackingDeltafiction" -> PUSH_POPUP_STATES_DELTAS
      [] state = "Pushing"             -> PUSH_POPUP_STATES_PUSHING

\* get_progress() that names every phase "pushing"
get_progress_OneLabel(self) ==
    IF self.progress = None
    THEN <<PUSH_POPUP_PROGRESS_NONE, 0>>
    ELSE <<PUSH_POPUP_STATES_PUSHING, self.progress[1].progress>>

\* PushComponent::get_progress
get_progress(self) ==
    IF self.progress = None
    THEN <<PUSH_POPUP_PROGRESS_NONE, 0>>
    ELSE <<progress_state_name(self.progress[1].state),
           self.progress[1].progress>>

\* strings::commands::close_msg as a CommandInfo
CloseCommand(enabled, available) ==
    [text |-> "close", enabled |-> enabled, available |-> available]

\* commands() that offers close as enabled whatever pending is
commands_CloseAlwaysEnabled(self, out, force_all) ==
    LET cleared == IF self.visible THEN <<>> ELSE out IN
    IF self.input_cred.visible
    THEN cred_commands(self.input_cred, cleared, force_all)
    ELSE [out |-> Append(cleared, CloseCommand(TRUE, self.visible)),
          ret |-> visibility_blocking(self)]

\* Component::commands
commands(self, out, force_all) ==
    LET cleared == IF self.visible THEN <<>> ELSE out IN
    IF self.input_cred.visible
    THEN cred_commands(self.input_cred, cleared, force_all)
    ELSE [out |-> Append(cleared, CloseCommand(~self.pending, self.visible)),
          ret |-> visibility_blocking(self)]

\* hide() that leaves the popup on screen
hide_Nothing(self) == self

\* Component::hide
hide(self) == [self EXCEPT !.visible = FALSE]

\* Component::show
show(self) == [self EXCEPT !.visible = TRUE]

\* PushComponent::push_to_remote
push_to_remote(self, cred, accepted) ==
    LET s1  == [self EXCEPT !.pending = TRUE, !.progress = None]
        req == [remote |-> DEFAULT_REMOTE_NAME,
                branch |-> s1.branch,
                basic_credential |-> cred]
        s2  == [s1 EXCEPT !.git_push = request(@, req, accepted),
                          !.submitted = Append(@, req)]
    IN  [self |-> s2, ret |-> IF accepted THEN "Ok" ELSE "Err"]

\* InternalEvent::ShowErrorMsg(format!("push failed:\n{}", err))
ShowErrorMsg(err) == [kind |-> "ShowErrorMsg", msg |-> <<"push failed:\n", err>>]

\* update() that drops the error of a finished push
update_NoReport(self, poll) ==
    LET s0 == [self EXCEPT !.polled = TRUE] IN
    IF poll = "is_pending" THEN [self |-> s0, ret |-> "Err"]
    ELSE
    LET s1 == [s0 EXCEPT !.pending = s0.git_push.pending] IN
    IF poll = "progress" THEN [self |-> s1, ret |-> "Err"]
    ELSE
    LET s2 == [s1 EXCEPT !.progress = s1.git_push.progress] IN
    IF ~s2.pending
    THEN IF poll = "last_result" THEN [self |-> s2, ret |-> "Err"]
         ELSE [self |-> hide(s2), ret |-> "Ok"]
    ELSE [self |-> s2, ret |-> "Ok"]

\* update() that hides the popup only after a failed push
update_HidesOnError(self, poll) ==
    LET s0 == [self EXCEPT !.polled = TRUE] IN
    IF poll = "is_pending" THEN [self |-> s0, ret |-> "Err"]
    ELSE
    LET s1 == [s0 EXCEPT !.pending = s0.git_push.pending] IN
    IF poll = "progress" THEN [self |-> s1, ret |-> "Err"]
    ELSE
    LET s2 == [s1 EXCEPT !.progress = s1.git_push.progress] IN
    IF ~s2.pending
    THEN IF poll = "last_result" THEN [self |-> s2, ret |-> "Err"]
         ELSE IF s2.git_push.last_result # None
              THEN [self |-> hide([s2 EXCEPT !.queue =
                              Append(@, ShowErrorMsg(s2.git_push.last_result[1]))]),
                    ret |-> "Ok"]
              ELSE [self |-> s2, ret |-> "Ok"]
    ELSE [self |-> s2, ret |-> "Ok"]

\* update() that refreshes pending and leaves the displayed progress alone
update_KeepsProgress(self, poll) ==
    LET s0 == [self EXCEPT !.polled = TRUE] IN
    IF poll = "is_pending" THEN [self |-> s0, ret |-> "Err"]
    ELSE
    LET s1 == [s0 EXCEPT !.pending = s0.git_push.pending] IN
    IF poll = "progress" THEN [self |-> s1, ret |-> "Err"]
    ELSE
    IF ~s1.pending
    THEN IF poll = "last_result" THEN [self |-> s1, ret |-> "Err"]
         ELSE LET s3 == IF s1.git_push.last_result # None
                        THEN [s1 EXCEPT !.queue =
                                 Append(@, ShowErrorMsg(s1.git_push.last_result[1]))]
                        ELSE s1
              IN  [self |-> hide(s3), ret |-> "Ok"]
    ELSE [self |-> s1, ret |-> "Ok"]

\* PushComponent::update
update(self, poll) ==
    LET s0 == [self EXCEPT !.polled = TRUE] IN
    IF poll = "is_pending" THEN [self |-> s0, ret |-> "Err"]
    ELSE
    LET s1 == [s0 EXCEPT !.pending = s0.git_push.pending] IN
    IF poll = "progress" THEN [self |-> s1, ret |-> "Err"]
    ELSE
    LET s2 == [s1 EXCEPT !.progress = s1.git_push.progress] IN
    IF ~s2.pending
    THEN IF poll = "last_result" THEN [self |-> s2, ret |-> "Err"]
         ELSE LET s3 == IF s2.git_push.last_result # None
                        THEN [s2 EXCEPT !.queue =
                                 Append(@, ShowErrorMsg(s2.git_push.last_result[1]))]
                        ELSE s2
              IN  [self |-> hide(s3), ret |-> "Ok"]
    ELSE [self |-> s2, ret |-> "Ok"]

\* update_git() with the visibility test the wrong way round
update_git_WhenHidden(self, ev, poll) ==
    IF ~self.visible /\ ev = "Push"
    THEN update(self, poll)
    ELSE [self |-> self, ret |-> "Ok"]

\* update_git() that refreshes on a notification of any subsystem
update_git_AnyTag(self, ev, poll) ==
    IF self.visible
    THEN update(self, poll)
    ELSE [self |-> self, ret |-> "Ok"]

\* PushComponent::update_git
update_git(self, ev, poll) ==
    IF self.visible /\ ev = "Push"
    THEN update(self, poll)
    ELSE [self |-> self, ret |-> "Ok"]

\* push() that sends the credential it found even when none is needed
push_AlwaysSendsCred(self, b, need, extract, accepted) ==
    LET s1 == show([self EXCEPT !.branch = b]) IN
    IF need = "Err" THEN [self |-> s1, ret |-> "Err"]
    ELSE IF need = "true"
    THEN LET cred == IF extract.ok THEN extract.cred ELSE EmptyCred IN
         IF is_complete(cred)
         THEN push_to_remote(s1, Some(cred), accepted)
         ELSE [self |-> [s1 EXCEPT !.input_cred = [visible |-> TRUE, cred |-> cred]],
               ret |-> "Ok"]
    ELSE push_to_remote(s1, Some(extract.cred), accepted)

\* push() that clears pending and progress before it asks whether the remote
\* needs a username and password
push_ResetsFirst(self, b, need, extract, accepted) ==
    LET s1 == show([self EXCEPT !.branch = b, !.pending = FALSE,
                                !.progress = None]) IN
    IF need = "Err" THEN [self |-> s1, ret |-> "Err"]
    ELSE IF need = "true"
    THEN LET cred == IF extract.ok THEN extract.cred ELSE EmptyCred IN
         IF is_complete(cred)
         THEN push_to_remote(s1, Some(cred), accepted)
         ELSE [self |-> [s1 EXCEPT !.input_cred = [visible |-> TRUE, cred |-> cred]],
               ret |-> "Ok"]
    ELSE push_to_remote(s1, None, accepted)

\* PushComponent::push
push(self, b, need, extract, accepted) ==
    LET s1 == show([self EXCEPT !.branch = b]) IN
    IF need = "Err" THEN [self |-> s1, ret |-> "Err"]
    ELSE IF need = "true"
    THEN LET cred == IF extract.ok THEN extract.cred ELSE EmptyCred IN
         IF is_complete(cred)
         THEN push_to_remote(s1, Some(cred), accepted)
         ELSE [self |-> [s1 EXCEPT !.input_cred = [visible |-> TRUE, cred |-> cred]],
               ret |-> "Ok"]
    ELSE push_to_remote(s1, None, accepted)

\* event() that leaves the credential prompt open after sending the push
event_KeepsPrompt(self, ev, out, accepted) ==
    IF self.visible
    THEN IF IsKey(ev)
         THEN LET s1 == IF ev = exit_popup THEN hide(self) ELSE self
                  s2 == [s1 EXCEPT !.input_cred = out.input_cred]
              IN  IF out.consumed
                  THEN [self |-> s2, ret |-> "Ok(true)"]
                  ELSE IF ev = enter
                  THEN IF s2.input_cred.visible /\ is_complete(s2.input_cred.cred)
                       THEN LET r == push_to_remote(s2, Some(s2.input_cred.cred),
                                                    accepted)
                            IN  IF r.ret = "Err"
                                THEN r
                                ELSE [self |-> r.self, ret |-> "Ok(true)"]
                       ELSE [self |-> hide(s2), ret |-> "Ok(true)"]
                  ELSE [self |-> s2, ret |-> "Ok(true)"]
         ELSE [self |-> self, ret |-> "Ok(true)"]
    ELSE [self |-> self, ret |-> "Ok(false)"]

\* event() that lets the keys it has no binding for pass through
event_PassesUnboundKeys(self, ev, out, accepted) ==
    IF self.visible
    THEN IF IsKey(ev)
         THEN LET s1 == IF ev = exit_popup THEN hide(self) ELSE self
                  s2 == [s1 EXCEPT !.input_cred = out.input_cred]
              IN  IF out.consumed
                  THEN [self |-> s2, ret |-> "Ok(true)"]
                  ELSE IF ev = enter
                  THEN IF s2.input_cred.visible /\ is_complete(s2.input_cred.cred)
                       THEN LET r == push_to_remote(s2, Some(s2.input_cred.cred),
                                                    accepted)
                            IN  IF r.ret = "Err"
                                THEN r
                                ELSE [self |-> [r.self EXCEPT
                                                  !.input_cred.visible = FALSE],
                                      ret  |-> "Ok(true)"]
                       ELSE [self |-> hide(s2), ret |-> "Ok(true)"]
                  ELSE [self |-> s2,
                        ret |-> IF ev = exit_popup THEN "Ok(true)" ELSE "Ok(false)"]
         ELSE [self |-> self, ret |-> "Ok(true)"]
    ELSE [self |-> self, ret |-> "Ok(false)"]

\* event() that sends whatever the visible credential prompt holds
event_SubmitsIncomplete(self, ev, out, accepted) ==
    IF self.visible
    THEN IF IsKey(ev)
         THEN LET s1 == IF ev = exit_popup THEN hide(self) ELSE self
                  s2 == [s1 EXCEPT !.input_cred = out.input_cred]
              IN  IF out.consumed
                  THEN [self |-> s2, ret |-> "Ok(true)"]
                  ELSE IF ev = enter
                  THEN IF s2.input_cred.visible
                       THEN LET r == push_to_remote(s2, Some(s2.input_cred.cred),
                                                    accepted)
                            IN  IF r.ret = "Err"
                                THEN r
                                ELSE [self |-> [r.self EXCEPT
                                                  !.input_cred.visible = FALSE],
                                      ret  |-> "Ok(true)"]
                       ELSE [self |-> hide(s2), ret |-> "Ok(true)"]
                  ELSE [self |-> s2, ret |-> "Ok(true)"]
         ELSE [self |-> self, ret |-> "Ok(true)"]
    ELSE [self |-> self, ret |-> "Ok(false)"]

\* Component::event
event(self, ev, out, accepted) ==
    IF self.visible
    THEN IF IsKey(ev)
         THEN LET s1 == IF ev = exit_popup THEN hide(self) ELSE self
                  s2 == [s1 EXCEPT !.input_cred = out.input_cred]
              IN  IF out.consumed
                  THEN [self |-> s2, ret |-> "Ok(true)"]
                  ELSE IF ev = enter
                  THEN IF s2.input_cred.visible /\ is_complete(s2.input_cred.cred)
                       THEN LET r == push_to_remote(s2, Some(s2.input_cred.cred),
                                                    accepted)
                            IN  IF r.ret = "Err"
                                THEN r
                                ELSE [self |-> [r.self EXCEPT
                                                  !.input_cred.visible = FALSE],
                                      ret  |-> "Ok(true)"]
                       ELSE [self |-> hide(s2), ret |-> "Ok(true)"]
                  ELSE [self |-> s2, ret |-> "Ok(true)"]
         ELSE [self |-> self, ret |-> "Ok(true)"]
    ELSE [self |-> self, ret |-> "Ok(false)"]

-----------------------------------------------------------------------------
(* The state machine *)

\* the component as the methods above see it, with an empty call log
Self ==
    [visible |-> visible, pending |-> pending, branch |-> branch,
     progress |-> progress, input_cred |-> input_cred, queue |-> queue,
     git_push |-> git_push, submitted |-> <<>>, polled |-> FALSE]

\* the fields of the component proper
Core(s) ==
    <<s.visible, s.pending, s.branch, s.progress, s.input_cred, s.queue,
      s.git_push>>

\* the inputs of a call that the call does not use, as recorded in `last`
NoInputs ==
    [b |-> "", need |-> "false", extract |-> [ok |-> FALSE, cred |-> EmptyCred],
     accepted |-> TRUE, ev |-> "Resize", note |-> "Other", poll |-> "ok",
     out |-> [consumed |-> FALSE,
              input_cred |-> [visible |-> FALSE, cred |-> EmptyCred]]]

\* what a step of the environment (engine, queue consumer) leaves in `last`
NoCall(op) ==
    [op |-> op, in |-> NoInputs, ret |-> "Ok", submitted |-> <<>>,
     polled |-> FALSE, again |-> FALSE, shown |-> <<>>]

\* `last` after a call `op` with inputs `in` that left the component as
\* r.self and returned r.ret: the call, its result and the calls it made on
\* git_push.  `again` tells a call that repeats the previous one and changes
\* nothing (`still`: nor does the channel), so that every call is a step.
\* `shown` is what a call of commands() or get_progress() gave its caller.
Record(op, in, r, still) ==
    LET rec == [op |-> op, in |-> in, ret |-> r.ret,
                submitted |-> r.self.submitted, polled |-> r.self.polled,
                again |-> FALSE, shown |-> <<>>]
    IN  IF still /\ Core(r.self) = Core(Self)
           /\ rec = [last EXCEPT !.again = FALSE]
        THEN [rec EXCEPT !.again = ~last.again]
        ELSE rec

\* the component's fields after a call
Apply(r) ==
    /\ visible' = r.self.visible
    /\ pending' = r.self.pending
    /\ branch' = r.self.branch
    /\ progress' = r.self.progress
    /\ input_cred' = r.self.input_cred
    /\ queue' = r.self.queue
    /\ git_push' = r.self.git_push

\* bookkeeping about transfers, kept only by the specification SpecTrack:
\* phase tells what the most recent push() call has led to so far (nothing,
\* the credential prompt, a request to the engine); reported tells that the
\* result of the transfer the engine finished last is on the queue already
NoTrack == [phase |-> "idle", reported |-> FALSE]

\* PushComponent::new
Init ==
    /\ visible = FALSE
    /\ pending = FALSE
    /\ branch = ""
    /\ progress = None
    /\ input_cred = [visible |-> FALSE, cred |-> EmptyCred]
    /\ queue = <<>>
    /\ git_push = [pending |-> FALSE, progress |-> None, last_result |-> None]
    /\ channel = 0
    /\ last = NoCall("new")
    /\ track = NoTrack

\* a caller asks to push branch b
Push ==
    \E b \in Branches, need \in NeedOutcomes, extract \in ExtractOutcomes,
       accepted \in BOOLEAN :
        LET r == push(Self, b, need, extract, accepted) IN
        \* inputs the call never reads are recorded at their defaults
        /\ need = "true" \/ extract = NoInputs.extract
        /\ r.self.submitted # <<>> \/ accepted
        /\ Apply(r)
        /\ last' = Record("push",
                          [NoInputs EXCEPT !.b = b, !.need = need,
                                           !.extract = extract,
                                           !.accepted = accepted], r, TRUE)
        /\ UNCHANGED channel

\* the application hands an AsyncNotification to the component; a Push
\* notification is one the engine has sent
UpdateGitOf(note) ==
    \E poll \in PollOutcomes :
        LET r == update_git(Self, note, poll) IN
        /\ note = "Push" => channel > 0
        /\ r.self.polled \/ poll = "ok"
        /\ poll = "last_result" => ~git_push.pending
        /\ Len(r.self.queue) <= MaxQueue
        /\ Apply(r)
        /\ channel' = IF note = "Push" THEN channel - 1 ELSE channel
        /\ last' = Record("update_git",
                          [NoInputs EXCEPT !.note = note, !.poll = poll], r,
                          note # "Push")

UpdateGit == \E note \in Notifications : UpdateGitOf(note)

\* the application hands an input event to the component
InputEvent ==
    \E ev \in Events, accepted \in BOOLEAN :
      \E out \in (IF visible /\ IsKey(ev)
                  THEN CredEventOutcomes(input_cred, ev)
                  ELSE {NoInputs.out}) :
        LET r == event(Self, ev, out, accepted) IN
        /\ r.self.submitted # <<>> \/ accepted
        /\ Apply(r)
        /\ last' = Record("event",
                          [NoInputs EXCEPT !.ev = ev, !.out = out,
                                           !.accepted = accepted], r, TRUE)
        /\ UNCHANGED channel

\* the engine's worker reports progress and notifies the application
EngineProgress ==
    /\ git_push.pending
    /\ channel < MaxChannel
    /\ \E p \in Snapshots :
         git_push' = [git_push EXCEPT !.progress = Some(p)]
    /\ channel' = channel + 1
    /\ last' = NoCall("engine")
    /\ UNCHANGED <<visible, pending, branch, progress, input_cred, queue>>

\* the engine's worker finishes the push, with or without an error, and
\* notifies the application
EngineComplete ==
    /\ git_push.pending
    /\ channel < MaxChannel
    /\ \E res \in {None} \cup {Some(e) : e \in Errs} :
         git_push' = [git_push EXCEPT !.pending = FALSE, !.last_result = res]
    /\ channel' = channel + 1
    /\ last' = NoCall("engine")
    /\ UNCHANGED <<visible, pending, branch, progress, input_cred, queue>>

\* the application takes the oldest event off the queue
Drain ==
    /\ queue # <<>>
    /\ queue' = Tail(queue)
    /\ last' = NoCall("drain")
    /\ UNCHANGED <<visible, pending, branch, progress, input_cred, git_push,
                   channel>>

Next ==
    \/ Push /\ UNCHANGED track
    \/ UpdateGit /\ UNCHANGED track
    \/ InputEvent /\ UNCHANGED track
    \/ EngineProgress /\ UNCHANGED track
    \/ EngineComplete /\ UNCHANGED track
    \/ Drain /\ UNCHANGED track

Spec == Init /\ [][Next]_vars

-----------------------------------------------------------------------------
(* The command bar: the state machine above, with the application asking   *)
(* the component for its commands at any time                              *)

\* the application collects the commands of its components
Commands ==
    \E out \in {<<>>, <<OtherCommand>>}, force_all \in BOOLEAN :
        LET r == commands(Self, out, force_all) IN
        /\ last' = [NoCall("commands") EXCEPT !.ret = r.ret, !.shown = r.out]
        /\ UNCHANGED <<visible, pending, branch, progress, input_cred, queue,
                       git_push, channel, track>>

NextCommands ==
    \/ Next
    \/ Commands

SpecCommands == Init /\ [][NextCommands]_vars

-----------------------------------------------------------------------------
(* The progress gauge: get_progress() on every progress the popup can hold *)

\* a visible popup during a push, with any progress the engine may have
\* reported
InitProgress ==
    /\ visible = TRUE
    /\ pending = TRUE
    /\ branch \in Branches
    /\ progress \in {None} \cup {Some(p) : p \in AllSnapshots}
    /\ input_cred = [visible |-> FALSE, cred |-> EmptyCred]
    /\ queue = <<>>
    /\ git_push = [pending |-> TRUE, progress |-> progress,
                   last_result |-> None]
    /\ channel = 0
    /\ last = NoCall("update_git")
    /\ track = NoTrack

\* draw() asks for the label and the percentage of the gauge
GetProgress ==
    /\ visible
    /\ last' = [NoCall("get_progress") EXCEPT !.shown = get_progress(Self)]
    /\ UNCHANGED <<visible, pending, branch, progress, input_cred, queue,
                   git_push, channel, track>>

NextProgress == GetProgress

SpecProgress == InitProgress /\ [][NextProgress]_vars

-----------------------------------------------------------------------------
(* Transfers told apart: the state machine above with the bookkeeping of   *)
(* `track` kept up to date                                                 *)

\* `track` after the step that the other primed variables describe
Tracked ==
    track' =
      [phase |->
         IF last'.submitted # <<>> THEN "requested"
         ELSE IF last'.op = "push"
         THEN IF last'.ret = "Ok" THEN "awaiting" ELSE "idle"
         ELSE track.phase,
       reported |->
         IF last'.op = "engine" /\ git_push.pending /\ ~git_push'.pending
         THEN FALSE
         ELSE IF Len(queue') > Len(queue) THEN TRUE
         ELSE track.reported]

NextTrack ==
    \/ Push /\ Tracked
    \/ UpdateGit /\ Tracked
    \/ InputEvent /\ Tracked
    \/ EngineProgress /\ Tracked
    \/ EngineComplete /\ Tracked
    \/ Drain /\ Tracked

SpecTrack == Init /\ [][NextTrack]_vars

-----------------------------------------------------------------------------
(* A transfer left to itself: the popup right after push() has handed a    *)
(* request to the engine, with no further call of push() and no input      *)
(* event.  The engine finishes the transfer (strong fairness: a full       *)
(* channel holds the worker up only for a while), the application handles  *)
(* the Push notifications waiting in the channel and takes events off the  *)
(* queue (weak fairness).                                                  *)

InitLive ==
    /\ visible = TRUE
    /\ pending = TRUE
    /\ branch \in Branches
    /\ progress = None
    /\ input_cred \in {[visible |-> FALSE, cred |-> c] : c \in Creds}
    /\ queue \in {<<>>} \cup {<<ShowErrorMsg(e)>> : e \in Errs}
    /\ git_push \in {[pending |-> TRUE, progress |-> None, last_result |-> res] :
                        res \in {None} \cup {Some(e) : e \in Errs}}
    /\ channel \in 0..1
    /\ last = [NoCall("push") EXCEPT
                 !.in.b = branch,
                 !.submitted = << [remote |-> DEFAULT_REMOTE_NAME,
                                   branch |-> branch,
                                   basic_credential |-> None] >>]
    /\ track = NoTrack

NextLive ==
    \/ UpdateGit /\ UNCHANGED track
    \/ EngineProgress /\ UNCHANGED track
    \/ EngineComplete /\ UNCHANGED track
    \/ Drain /\ UNCHANGED track

SpecLive ==
    /\ InitLive
    /\ [][NextLive]_vars
    /\ SF_vars(EngineComplete /\ UNCHANGED track)
    /\ WF_vars(UpdateGitOf("Push") /\ UNCHANGED track)
    /\ WF_vars(Drain /\ UNCHANGED track)

-----------------------------------------------------------------------------
(* Type correctness *)

TypeOK ==
    /\ visible \in BOOLEAN
    /\ pending \in BOOLEAN
    /\ branch \in Branches \cup {""}
    /\ progress \in {None} \cup {Some(p) : p \in Snapshots}
    /\ input_cred \in [visible : BOOLEAN, cred : Creds]
    /\ Len(queue) <= MaxQueue
    /\ git_push \in [pending : BOOLEAN,
                     progress : {None} \cup {Some(p) : p \in Snapshots},
                     last_result : {None} \cup {Some(e) : e \in Errs}]
    /\ channel \in 0..MaxChannel
    /\ track \in [phase : {"idle", "awaiting", "requested"},
                   reported : BOOLEAN]

-----------------------------------------------------------------------------
(* Properties.  A property of one call is a property of the step the call  *)
(* takes: unprimed variables are the component before the call, primed     *)
(* variables the component after it, and last' tells the call, its inputs, *)
(* its result and the requests and polls it made on the engine.            *)

\* the credential push() ends up with: the stored one, or the empty one when
\* extraction failed
StoredCred(l) == IF l.in.extract.ok THEN l.in.extract.cred ELSE EmptyCred

\* the call made a request that the engine refused
SubmitFailed(l) == l.submitted # <<>> /\ ~l.in.accepted

\* the call is an enter key that the visible credential prompt, holding a
\* complete credential, did not consume
ConfirmWithCred(l) ==
    /\ l.op = "event"
    /\ l.in.ev = enter
    /\ ~l.in.out.consumed
    /\ l.in.out.input_cred.visible
    /\ is_complete(l.in.out.input_cred.cred)

\* C1: in every reachable state, visible = false implies pending = false.
C1_HiddenImpliesNotPending == ~visible => ~pending

\* C2: if the engine refuses the request made by push_to_remote, pending is
\* false after the call, whatever the component was before.
C2_SubmitFailureRollsBack ==
    [][SubmitFailed(last') => (last'.ret = "Err" /\ ~pending')]_vars

\* C3: a Push notification handled while visible, with the engine reporting
\* not pending and a last result Some(err), appends exactly one ShowErrorMsg
\* event whose message contains err, hides the popup and returns Ok.
C3_TerminalFailureReported ==
    [][(/\ last'.op = "update_git"
        /\ last'.in.note = "Push"
        /\ last'.in.poll = "ok"
        /\ visible
        /\ ~git_push.pending
        /\ git_push.last_result # None)
       => /\ Len(queue') = Len(queue) + 1
          /\ SubSeq(queue', 1, Len(queue)) = queue
          /\ queue'[Len(queue')].kind = "ShowErrorMsg"
          /\ \E i \in DOMAIN queue'[Len(queue')].msg :
                queue'[Len(queue')].msg[i] = git_push.last_result[1]
          /\ ~visible'
          /\ last'.ret = "Ok"]_vars

C3_Witness ==
    /\ last.op = "update_git"
    /\ last.in.note = "Push"
    /\ last.polled
    /\ last.ret = "Ok"
    /\ ~git_push.pending
    /\ git_push.last_result = Some("connection reset")
    /\ queue # <<>>
    /\ ~visible

\* C4: a Push notification handled while visible, with the engine reporting
\* not pending and no last result, leaves the queue as it was and hides the
\* popup.
C4_TerminalSuccessSilent ==
    [][(/\ last'.op = "update_git"
        /\ last'.in.note = "Push"
        /\ last'.in.poll = "ok"
        /\ visible
        /\ ~git_push.pending
        /\ git_push.last_result = None)
       => /\ queue' = queue
          /\ ~visible']_vars

C4_Witness ==
    /\ last.op = "update_git"
    /\ last.in.note = "Push"
    /\ last.polled
    /\ last.ret = "Ok"
    /\ ~git_push.pending
    /\ git_push.last_result = None
    /\ ~visible

\* C5: push() from any state, when the remote needs a username and password
\* and the stored credential C is incomplete (or extraction failed and C is
\* empty), leaves visible = true, pending = false, the credential prompt
\* visible and holding C, and makes no request.
C5_CredentialGate ==
    [][(/\ last'.op = "push"
        /\ last'.in.need = "true"
        /\ ~is_complete(StoredCred(last')))
       => /\ visible'
          /\ ~pending'
          /\ input_cred' = [visible |-> TRUE, cred |-> StoredCred(last')]
          /\ last'.submitted = <<>>]_vars

\* C6: push(target) makes a request exactly when no username and password is
\* needed or the stored credential is complete; the request names the default
\* remote and target, with no credential in the first case and the stored
\* credential in the second; after an accepted request pending = true,
\* progress = None and visible = true.
C6_PushSubmits ==
    [][last'.op = "push"
       => LET direct == last'.in.need = "false"
              stored == last'.in.need = "true" /\ is_complete(StoredCred(last'))
          IN  /\ (last'.submitted # <<>>) <=> (direct \/ stored)
              /\ (direct \/ stored) =>
                    last'.submitted =
                      << [remote |-> "origin",
                          branch |-> last'.in.b,
                          basic_credential |->
                             IF direct THEN None ELSE Some(StoredCred(last'))] >>
              /\ (last'.submitted # <<>> /\ last'.in.accepted) =>
                    (pending' /\ progress' = None /\ visible'
                     /\ last'.ret = "Ok")]_vars

C6_Witness ==
    /\ last.op = "push"
    /\ last.in.need = "true"
    /\ last.submitted # <<>>
    /\ last.submitted[1].basic_credential # None
    /\ last.submitted[1].branch = "dev"
    /\ last.in.accepted
    /\ pending
    /\ visible

\* C7: a notification received while not visible, and a notification that is
\* not a Push notification in any state, changes none of visible, pending,
\* progress, branch and the queue, polls nothing and returns Ok.
C7_NotificationFilter ==
    [][(/\ last'.op = "update_git"
        /\ (~visible \/ last'.in.note # "Push"))
       => /\ UNCHANGED <<visible, pending, progress, branch, queue>>
          /\ ~last'.polled
          /\ last'.ret = "Ok"]_vars

C7_Witness ==
    /\ last.op = "update_git"
    /\ last.in.note = "Other"
    /\ visible
    /\ pending
    /\ ~git_push.pending
    /\ git_push.last_result # None

\* C8 as claimed: the enter key, pressed while visible with the credential
\* prompt visible, holding a complete credential and not consuming the key,
\* makes a request with that credential and the branch of the last push, sets
\* pending, hides the credential prompt and leaves the popup visible.
C8_ConfirmSubmits ==
    [][(visible /\ ConfirmWithCred(last'))
       => /\ last'.submitted =
                << [remote |-> "origin", branch |-> branch,
                    basic_credential |-> Some(last'.in.out.input_cred.cred)] >>
          /\ pending'
          /\ ~input_cred'.visible
          /\ visible']_vars

\* C8 amended: that key makes the request with that credential and the branch
\* of the last push and leaves the popup visible; when the engine accepts the
\* request, pending = true and the credential prompt is hidden; when it
\* refuses, the error is returned and the credential prompt stays visible.
C8_ConfirmSubmitsWhenAccepted ==
    [][/\ (last'.op = "push" => branch' = last'.in.b)
       /\ (last'.op # "push" => branch' = branch)
       /\ (visible /\ ConfirmWithCred(last'))
          => /\ last'.submitted =
                   << [remote |-> "origin", branch |-> branch,
                       basic_credential |-> Some(last'.in.out.input_cred.cred)] >>
             /\ visible'
             /\ last'.in.accepted =>
                   /\ pending'
                   /\ input_cred' = [last'.in.out.input_cred
                                        EXCEPT !.visible = FALSE]
                   /\ last'.ret = "Ok(true)"
             /\ ~last'.in.accepted =>
                   /\ input_cred' = last'.in.out.input_cred
                   /\ last'.ret = "Err"]_vars

C8_Witness ==
    /\ ConfirmWithCred(last)
    /\ last.in.accepted
    /\ last.ret = "Ok(true)"
    /\ last.submitted # <<>>
    /\ last.submitted[1].branch = "dev"
    /\ pending
    /\ ~input_cred.visible
    /\ visible

C10_CloseDoesNotCancel ==
    [][/\ (last'.op = "event" /\ last'.in.ev = exit_popup /\ visible)
          => /\ ~visible'
             /\ last'.submitted = <<>>
             /\ git_push' = git_push
       /\ (last'.op = "update_git" /\ ~visible)
          => /\ ~last'.polled
             /\ Core(Self)' = Core(Self)
             /\ ~visible']_vars

C10_Witness ==
    /\ last.op = "event"
    /\ last.in.ev = exit_popup
    /\ last.ret = "Ok(true)"
    /\ ~visible
    /\ git_push.pending
    /\ git_push.progress # None

\* C12 as claimed: when need_username_password fails, push() returns the
\* error, makes no request and changes nothing but visible, which is true.
C12_AuthCheckFailureChangesOnlyVisible ==
    [][(last'.op = "push" /\ last'.in.need = "Err")
       => /\ last'.ret = "Err"
          /\ last'.submitted = <<>>
          /\ visible'
          /\ UNCHANGED <<pending, progress, input_cred, branch, queue,
                         git_push>>]_vars

\* C12 amended: when need_username_password fails, push() returns the error,
\* makes no request and changes nothing but visible, which is true, and
\* branch, which is the target of the call.
C12_AuthCheckFailureSetsVisibleAndBranch ==
    [][(last'.op = "push" /\ last'.in.need = "Err")
       => /\ last'.ret = "Err"
          /\ last'.submitted = <<>>
          /\ visible'
          /\ branch' = last'.in.b
          /\ UNCHANGED <<pending, progress, input_cred, queue, git_push>>]_vars

C12_Witness ==
    /\ last.op = "push"
    /\ last.in.need = "Err"
    /\ last.ret = "Err"
    /\ last.in.b = "dev"
    /\ visible
    /\ pending
    /\ progress # None
    /\ input_cred.cred # EmptyCred

\* C14: the enter key pressed while visible, not consumed by the credential
\* prompt, with the prompt hidden or its credential incomplete, hides the
\* popup and makes no request.
C14_ConfirmWithoutCredHides ==
    [][(/\ visible
        /\ last'.op = "event"
        /\ last'.in.ev = enter
        /\ ~last'.in.out.consumed
        /\ ~(/\ last'.in.out.input_cred.visible
             /\ is_complete(last'.in.out.input_cred.cred)))
       => /\ ~visible'
          /\ last'.submitted = <<>>
          /\ git_push' = git_push]_vars

C14_Witness ==
    /\ last.op = "event"
    /\ last.in.ev = enter
    /\ last.ret = "Ok(true)"
    /\ ~last.in.out.consumed
    /\ last.in.out.input_cred.visible
    /\ ~is_complete(last.in.out.input_cred.cred)
    /\ last.submitted = <<>>
    /\ ~visible

\* C15: a Push notification handled while visible, with the engine still
\* pending, leaves the popup visible with pending = true, sets progress to
\* the engine's snapshot and appends nothing to the queue.
C15_StillPendingRefreshesProgress ==
    [][(/\ last'.op = "update_git"
        /\ last'.in.note = "Push"
        /\ last'.in.poll = "ok"
        /\ visible
        /\ git_push.pending)
       => /\ visible'
          /\ pending'
          /\ progress' = git_push.progress
          /\ queue' = queue
          /\ last'.ret = "Ok"]_vars

C15_Witness ==
    /\ last.op = "update_git"
    /\ last.in.note = "Push"
    /\ last.polled
    /\ last.ret = "Ok"
    /\ git_push.pending
    /\ visible
    /\ pending
    /\ progress = Some([state |-> "PackingDeltafiction", progress |-> 42])

\* C16: after update() has seen the engine not pending, pending = false and
\* progress = None.
C16_TerminalResetsTracking ==
    [][(/\ last'.op = "update_git"
        /\ last'.in.note = "Push"
        /\ last'.in.poll = "ok"
        /\ visible
        /\ ~git_push.pending)
       => /\ ~pending'
          /\ progress' = None]_vars

\* C17: in every reachable state, a visible credential prompt implies a
\* visible popup.
C17_PromptNestedInPopup == input_cred.visible => visible

\* C11: while the popup is visible and the credential prompt is not, the
\* command list is exactly the close command, enabled iff pending = false;
\* while the credential prompt is visible the list ends with the prompt's
\* commands and holds no close command of the popup.
C11_CommandsExposeClose ==
    last.op = "commands"
    => /\ (visible /\ ~input_cred.visible)
          => last.shown = << [text |-> "close", enabled |-> ~pending,
                              available |-> TRUE] >>
       /\ input_cred.visible
          => /\ \A i \in DOMAIN last.shown : last.shown[i].text # "close"
             /\ \E i \in DOMAIN last.shown : last.shown[i].text = "cred:confirm"
             /\ \E i \in DOMAIN last.shown : last.shown[i].text = "cred:cancel"
             /\ visible => Len(last.shown) = 2

C11_Witness ==
    /\ last.op = "commands"
    /\ visible
    /\ ~input_cred.visible
    /\ pending
    /\ Len(last.shown) = 1
    /\ ~last.shown[1].enabled

\* C13: get_progress() maps no progress to the no-progress label and 0, and
\* a snapshot to the label of its phase and its percentage, for every phase
\* and every percentage; it changes nothing.
C13_ProgressProjection ==
    last.op = "get_progress"
    => /\ progress = None
          => last.shown = <<"strings::PUSH_POPUP_PROGRESS_NONE", 0>>
       /\ progress # None
          => /\ Len(last.shown) = 2
             /\ last.shown[2] = progress[1].progress
             /\ last.shown[2] \in 0..MaxPercent
             /\ progress[1].state = "PackingAddingObject"
                   => last.shown[1] = "strings::PUSH_POPUP_STATES_ADDING"
             /\ progress[1].state = "PackingDeltafiction"
                   => last.shown[1] = "strings::PUSH_POPUP_STATES_DELTAS"
             /\ progress[1].state = "Pushing"
                   => last.shown[1] = "strings::PUSH_POPUP_STATES_PUSHING"

C13_Witness ==
    /\ last.op = "get_progress"
    /\ progress = Some([state |-> "PackingDeltafiction", progress |-> MaxPercent])
    /\ last.shown = <<"strings::PUSH_POPUP_STATES_DELTAS", MaxPercent>>

\* C18: each transfer puts at most one failure event on the queue: an event
\* is never appended when the result of the transfer the engine finished
\* last has been reported already.
C18_OneReportPerTransfer ==
    [][(last'.op = "update_git" /\ Len(queue') > Len(queue))
       => ~track.reported]_vars

\* C19: while the popup waits for credentials for the most recent push()
\* (popup and credential prompt visible, no request since that call), a Push
\* notification, which can only stem from an earlier transfer, neither hides
\* the popup nor appends an event to the queue.
C19_StaleNotificationWhileAwaiting ==
    [][(/\ visible
        /\ input_cred.visible
        /\ track.phase = "awaiting"
        /\ last'.op = "update_git"
        /\ last'.in.note = "Push")
       => /\ visible'
          /\ queue' = queue]_vars

\* a poll of the engine failed in the call of update_git() just made
PollFailed == last.op = "update_git" /\ last.ret = "Err"

====
